---- MODULE Spec2Model ----
(***************************************************************************)
(* Reconciliation of a Zero Trust device inventory against the A records   *)
(* of a DNS zone (src/index.ts).  One invocation of the scheduled handler  *)
(* is a cycle; every await of the handler is one step of the model.        *)
(*                                                                         *)
(* Strings are sequences of one-character strings, so that toLowerCase,    *)
(* split, join and isIPv4 are computed as the code computes them.          *)
(***************************************************************************)
EXTENDS Integers, Sequences, FiniteSets, TLC

VARIABLES
    pc,         \* position of the handler: idle, zone, devices, ips, records, update, done, noenv, aborted
    cycle,      \* number of the current cycle
    obs,        \* the directory: what devices.list yields, in order
    warp,       \* the address lookup service: device id -> response
    store,      \* the zone's A records at the provider; a record's id is its index
    zone_name,  \* scheduled: const zone_name
    devices,    \* scheduled: const devices (insertion-ordered object)
    records,    \* scheduled: const records (the snapshot, insertion-ordered object)
    i,          \* index of the next device of the running for..in loop
    calls,      \* CREATE/UPDATE calls issued in this cycle, in order
    log,        \* per-device 'DNS Record for ...' console messages of this cycle
    err,        \* the call whose exception ended this cycle, or "none"
    prev        \* how the previous cycle ended: none, done, aborted

vars == <<pc, cycle, obs, warp, store, zone_name, devices, records, i, calls, log, err, prev>>

----------------------------------------------------------------------------
(* Bounds *)

\* devices the directory lists in the cycle model
MaxDevs == 2
\* observations in the deduplication model
MaxObs == 3
\* A records in the zone before the first cycle
MaxRecs == 2
\* invocations of the scheduled handler
MaxCycles == 2
\* largest valid timestamp
MaxT == 2

----------------------------------------------------------------------------
(* Strings *)

Digits == {"0", "1", "2", "3", "4", "5", "6", "7", "8", "9"}

DigitSeq == <<"0", "1", "2", "3", "4", "5", "6", "7", "8", "9">>

DigitVal(c) == (CHOOSE k \in 1..10 : DigitSeq[k] = c) - 1

\* String.prototype.toLowerCase on one character of the model's alphabet
LowerChar(c) ==
    CASE c = "A" -> "a"
      [] c = "B" -> "b"
      [] OTHER -> c

\* the name used as it is
toLowerCase_Identity(s) == s

toLowerCase(s) == [k \in 1..Len(s) |-> LowerChar(s[k])]

\* [x, y].join('.')
join(x, y) == x \o <<".">> \o y

\* str.split(".")
RECURSIVE split(_)
split(str) ==
    IF str = <<>> THEN << <<>> >>
    ELSE LET rest == split(Tail(str))
         IN  IF Head(str) = "."
             THEN << <<>> >> \o rest
             ELSE << <<Head(str)>> \o Head(rest) >> \o Tail(rest)

\* /^\d+$/.test(part)
AllDigits(part) == Len(part) > 0 /\ \A k \in 1..Len(part) : part[k] \in Digits

\* Number(part), for a part made of digits
RECURSIVE Number(_)
Number(part) ==
    IF part = <<>> THEN 0
    ELSE 10 * Number(SubSeq(part, 1, Len(part) - 1)) + DigitVal(part[Len(part)])

\* String(num), for a natural number
RECURSIVE String(_)
String(num) ==
    IF num < 10 THEN <<DigitSeq[num + 1]>>
    ELSE String(num \div 10) \o <<DigitSeq[(num % 10) + 1]>>

\* the range check off by one
OctetOk_UpTo256(part) ==
    IF ~AllDigits(part) THEN FALSE
    ELSE LET num == Number(part)
         IN  num >= 0 /\ num <= 256 /\ String(num) = part

\* parts.every(...) callback of isIPv4
OctetOk(part) ==
    IF ~AllDigits(part) THEN FALSE
    ELSE LET num == Number(part)
         IN  num >= 0 /\ num <= 255 /\ String(num) = part

\* isIPv4 without the String(num) === part comparison
isIPv4_NoCanonicalForm(str) ==
    LET parts == split(str)
    IN  IF Len(parts) # 4 THEN FALSE
        ELSE \A k \in 1..Len(parts) :
                AllDigits(parts[k]) /\ Number(parts[k]) <= 255

isIPv4(str) ==
    LET parts == split(str)
    IN  IF Len(parts) # 4 THEN FALSE
        ELSE \A k \in 1..Len(parts) : OctetOk(parts[k])

----------------------------------------------------------------------------
(* Values *)

\* string | null | undefined, as the ip field holds it
Null == [tag |-> "null", val |-> <<>>]
Undefined == [tag |-> "undefined", val |-> <<>>]
Str(s) == [tag |-> "string", val |-> s]

\* x ?? ''
OrEmpty(x) == IF x.tag = "string" THEN x.val ELSE <<>>

\* new Date(updated_at) of an unparseable timestamp
InvalidDate == -1

\* a < b on two Date objects: false as soon as one is an Invalid Date
DateLt(a, b) == a # InvalidDate /\ b # InvalidDate /\ a < b

IP1 == <<"1", ".", "1", ".", "1", ".", "1">>
IP2 == <<"2", ".", "2", ".", "2", ".", "2">>
\* a leading zero in the last octet
BadIP == <<"1", ".", "1", ".", "1", ".", "0", "1">>

ZoneName == <<"z">>

DevNames == {<<"a">>, <<"A">>, <<"b">>}

DevIds == 1..MaxDevs

ttl == 300

----------------------------------------------------------------------------
(* The external services *)

\* valid timestamps of the cycle model, and of the deduplication model
Times == 1..MaxT

\* largest valid timestamp of the deduplication model
MaxTObs == 3

ObsTimes == (1..MaxTObs) \cup {InvalidDate}

\* the listings of at most n observations; ids are opaque and pairwise
\* distinct, so the k-th observation listed carries id k
Listings(n, times) ==
    UNION { { [x \in 1..k |-> [id |-> x, name |-> f[x].name, updated_at |-> f[x].updated_at]] :
                f \in [1..k -> [name : DevNames, updated_at : times]] } : k \in 0..n }

Addrs == {IP1, IP2, BadIP}

\* what GET /accounts/{account_id}/warp/{device_id} answers:
\* the status, whether the body parses as JSON, json.success,
\* whether json.result.metadata is an object, whether it has an ipv4 member
R404 == [status |-> 404, parses |-> TRUE, success |-> FALSE, metadata |-> FALSE, hasip |-> FALSE, ipv4 |-> <<>>]
RBadJson == [status |-> 200, parses |-> FALSE, success |-> FALSE, metadata |-> FALSE, hasip |-> FALSE, ipv4 |-> <<>>]
RNotSuccess == [status |-> 200, parses |-> TRUE, success |-> FALSE, metadata |-> FALSE, hasip |-> FALSE, ipv4 |-> <<>>]
RNoMeta == [status |-> 200, parses |-> TRUE, success |-> TRUE, metadata |-> FALSE, hasip |-> FALSE, ipv4 |-> <<>>]
REmptyMeta == [status |-> 200, parses |-> TRUE, success |-> TRUE, metadata |-> TRUE, hasip |-> FALSE, ipv4 |-> <<>>]
ROk(a) == [status |-> 200, parses |-> TRUE, success |-> TRUE, metadata |-> TRUE, hasip |-> TRUE, ipv4 |-> a]

Responses == {R404, RBadJson, RNotSuccess, RNoMeta, REmptyMeta} \cup {ROk(a) : a \in Addrs}

RecNames == {join(<<"a">>, ZoneName), join(<<"b">>, ZoneName)}

StoreInits ==
    UNION { [1..k -> [name : RecNames, content : {IP1, IP2}]] : k \in 0..MaxRecs }

----------------------------------------------------------------------------
(* get_devices *)

\* devices[id] = entry: a new key is appended, an existing key keeps its place
Put(devs, id, entry) ==
    IF \E k \in 1..Len(devs) : devs[k].id = id
    THEN [k \in 1..Len(devs) |-> IF devs[k].id = id THEN entry ELSE devs[k]]
    ELSE Append(devs, entry)

\* Object.values(devices).filter(device => device.name === name)
Existing(devs, name) == SelectSeq(devs, LAMBDA d : d.name = name)

\* existing.length === 0 || existing[0].updated < updated
Newer(existing, updated) ==
    Len(existing) = 0 \/ DateLt(existing[1].updated, updated)

\* the body of the for await loop, for one device of the listing
AddDevice(devs, device) ==
    LET id == device.id
        name == device.name
        updated == device.updated_at
        existing == Existing(devs, name)
    IN  IF Newer(existing, updated)
        THEN Put(devs, id, [id |-> id, name |-> name, updated |-> updated, ip |-> Null])
        ELSE devs

RECURSIVE get_devices_from(_, _)
get_devices_from(devs, listing) ==
    IF listing = <<>> THEN devs
    ELSE get_devices_from(AddDevice(devs, Head(listing)), Tail(listing))

get_devices(listing) == get_devices_from(<<>>, listing)

----------------------------------------------------------------------------
(* get_ip *)

\* the value get_ip returns once fetch has answered
get_ip(response) ==
    IF response.status # 200 THEN Null
    ELSE IF ~response.parses THEN Null
    ELSE IF response.success # TRUE THEN Null
    ELSE IF ~response.metadata THEN Null
    ELSE IF ~response.hasip THEN Undefined
    ELSE Str(response.ipv4)

\* the body of the for..in loop of scheduled, for one device
SetIp(devs, k, ip) ==
    IF ip = Null THEN devs
    ELSE [devs EXCEPT ![k].ip = ip]

----------------------------------------------------------------------------
(* get_dns_records *)

get_dns_records(zone) ==
    [k \in 1..Len(zone) |-> [id |-> k, name |-> zone[k].name, content |-> zone[k].content]]

----------------------------------------------------------------------------
(* update_dns_record *)

NoCall == <<>>

\* the matching entries taken last first
Entries_LastFirst(recs, name) ==
    LET found == SelectSeq(recs, LAMBDA r : r.name = name)
    IN  [k \in 1..Len(found) |-> found[Len(found) + 1 - k]]

\* Object.entries(records).filter(([id, record]) => record.name === name)
Entries(recs, name) == SelectSeq(recs, LAMBDA r : r.name = name)

\* the comparison of the contents left out
Differs_Always(record, content) == TRUE

\* record.content !== content
Differs(record, content) == record.content # content

\* the updated flag is never set: an update is logged as untouched
update_dns_record_FlagNotSet(zn, recs, device) ==
    LET content == OrEmpty(device.ip)
        name == join(toLowerCase(device.name), zn)
        entries == Entries(recs, name)
        exists == Len(entries) > 0
    IN  IF ~isIPv4(content) THEN [call |-> NoCall, msg |-> <<>>]
        ELSE IF exists
        THEN IF Differs(entries[1], content)
             THEN [call |-> <<[op |-> "update", dev |-> device.id, id |-> entries[1].id,
                               name |-> name, type |-> "A", content |-> content, ttl |-> ttl]>>,
                   msg |-> <<[dev |-> device.id, name |-> name, outcome |-> "untouched"]>>]
             ELSE [call |-> NoCall,
                   msg |-> <<[dev |-> device.id, name |-> name, outcome |-> "untouched"]>>]
        ELSE [call |-> <<[op |-> "create", dev |-> device.id, id |-> 0,
                          name |-> name, type |-> "A", content |-> content, ttl |-> ttl]>>,
              msg |-> <<[dev |-> device.id, name |-> name, outcome |-> "created"]>>]

\* what update_dns_record decides for one device: the call it awaits, if any,
\* and the outcome it logs when that call returns
update_dns_record(zn, recs, device) ==
    LET content == OrEmpty(device.ip)
        name == join(toLowerCase(device.name), zn)
        entries == Entries(recs, name)
        exists == Len(entries) > 0
    IN  IF ~isIPv4(content) THEN [call |-> NoCall, msg |-> <<>>]
        ELSE IF exists
        THEN IF Differs(entries[1], content)
             THEN [call |-> <<[op |-> "update", dev |-> device.id, id |-> entries[1].id,
                               name |-> name, type |-> "A", content |-> content, ttl |-> ttl]>>,
                   msg |-> <<[dev |-> device.id, name |-> name, outcome |-> "updated"]>>]
             ELSE [call |-> NoCall,
                   msg |-> <<[dev |-> device.id, name |-> name, outcome |-> "untouched"]>>]
        ELSE [call |-> <<[op |-> "create", dev |-> device.id, id |-> 0,
                          name |-> name, type |-> "A", content |-> content, ttl |-> ttl]>>,
              msg |-> <<[dev |-> device.id, name |-> name, outcome |-> "created"]>>]

\* an update that rewrites every record of the name
Apply_AllOfName(zone, c) ==
    IF c.op = "update"
    THEN [k \in 1..Len(zone) |->
            IF zone[k].name = c.name THEN [name |-> c.name, content |-> c.content]
            ELSE zone[k]]
    ELSE Append(zone, [name |-> c.name, content |-> c.content])

\* the provider's state after a successful call
Apply(zone, c) ==
    IF c.op = "update"
    THEN [zone EXCEPT ![c.id] = [name |-> c.name, content |-> c.content]]
    ELSE Append(zone, [name |-> c.name, content |-> c.content])

----------------------------------------------------------------------------
(* scheduled: one step per await *)

\* an awaited call throws: nothing catches it, the handler's promise rejects
Throw(e) ==
    /\ pc' = "aborted"
    /\ err' = e

Init ==
    /\ pc = "idle"
    /\ cycle = 0
    /\ obs \in Listings(MaxDevs, Times)
    /\ warp \in [DevIds -> Responses]
    /\ \A id \in DevIds : id > Len(obs) => warp[id] = R404
    /\ store \in StoreInits
    /\ zone_name = <<>>
    /\ devices = <<>>
    /\ records = <<>>
    /\ i = 1
    /\ calls = <<>>
    /\ log = <<>>
    /\ err = "none"
    /\ prev = "none"

\* the scheduler invokes the handler; the handler checks its environment and
\* returns at once when a variable is missing (such an invocation is not
\* counted as a cycle)
Start ==
    /\ pc \in {"idle", "done", "noenv", "aborted"}
    /\ cycle < MaxCycles
    /\ prev' = IF pc \in {"idle", "noenv"} THEN prev ELSE pc
    /\ \E env_set \in BOOLEAN :
          IF env_set
          THEN pc' = "zone" /\ cycle' = cycle + 1
          ELSE pc' = "noenv" /\ cycle' = cycle
    /\ zone_name' = <<>>
    /\ devices' = <<>>
    /\ records' = <<>>
    /\ i' = 1
    /\ calls' = <<>>
    /\ log' = <<>>
    /\ err' = "none"
    /\ UNCHANGED <<obs, warp, store>>

\* const zone_name = await get_zone_name(env.ZONE_ID)
GetZoneName ==
    /\ pc = "zone"
    /\ \/ /\ zone_name' = ZoneName
          /\ pc' = "devices"
          /\ UNCHANGED err
       \/ /\ Throw("get_zone_name")
          /\ UNCHANGED zone_name
    /\ UNCHANGED <<cycle, obs, warp, store, devices, records, i, calls, log, prev>>

\* a listing that fails part-way is caught and the cycle goes on with the
\* devices read so far
GetDevices_Partial ==
    /\ pc = "devices"
    /\ \/ /\ devices' = get_devices(obs)
          /\ pc' = IF Len(devices') = 0 THEN "records" ELSE "ips"
          /\ UNCHANGED err
       \/ \E n \in 0..Len(obs) :
             /\ devices' = get_devices(SubSeq(obs, 1, n))
             /\ pc' = IF Len(devices') = 0 THEN "records" ELSE "ips"
             /\ err' = "get_devices"
    /\ UNCHANGED <<cycle, obs, warp, store, zone_name, records, i, calls, log, prev>>

\* const devices = await get_devices(env.ACCOUNT_ID)
GetDevices ==
    /\ pc = "devices"
    /\ \/ /\ devices' = get_devices(obs)
          /\ pc' = IF Len(devices') = 0 THEN "records" ELSE "ips"
          /\ UNCHANGED err
       \/ /\ Throw("get_devices")
          /\ UNCHANGED devices
    /\ UNCHANGED <<cycle, obs, warp, store, zone_name, records, i, calls, log, prev>>

\* the lookup loop left after its first iteration
GetIp_StopsAfterFirst ==
    /\ pc = "ips"
    /\ i <= Len(devices)
    /\ \/ /\ devices' = SetIp(devices, i, get_ip(warp[devices[i].id]))
          /\ i' = 1
          /\ pc' = "records"
          /\ UNCHANGED err
       \/ /\ Throw("get_ip")
          /\ UNCHANGED <<devices, i>>
    /\ UNCHANGED <<cycle, obs, warp, store, zone_name, records, calls, log, prev>>

\* one iteration of the lookup loop: const ip = await get_ip(...)
GetIp ==
    /\ pc = "ips"
    /\ i <= Len(devices)
    /\ \/ /\ devices' = SetIp(devices, i, get_ip(warp[devices[i].id]))
          /\ i' = IF i = Len(devices) THEN 1 ELSE i + 1
          /\ pc' = IF i = Len(devices) THEN "records" ELSE "ips"
          /\ UNCHANGED err
       \/ \* fetch rejects, outside the try block of get_ip
          /\ Throw("get_ip")
          /\ UNCHANGED <<devices, i>>
    /\ UNCHANGED <<cycle, obs, warp, store, zone_name, records, calls, log, prev>>

\* const records = await get_dns_records(env.ZONE_ID)
GetDnsRecords ==
    /\ pc = "records"
    /\ \/ /\ records' = get_dns_records(store)
          /\ pc' = IF Len(devices) = 0 THEN "done" ELSE "update"
          /\ UNCHANGED err
       \/ /\ Throw("get_dns_records")
          /\ UNCHANGED records
    /\ UNCHANGED <<cycle, obs, warp, store, zone_name, devices, i, calls, log, prev>>

\* one iteration of update_dns_records: await update_dns_record(...)
UpdateDnsRecord ==
    /\ pc = "update"
    /\ i <= Len(devices)
    /\ LET r == update_dns_record(zone_name, records, devices[i])
       IN  IF r.call = NoCall
           THEN /\ log' = log \o r.msg
                /\ i' = i + 1
                /\ pc' = IF i = Len(devices) THEN "done" ELSE "update"
                /\ UNCHANGED <<store, calls, err>>
           ELSE /\ calls' = calls \o r.call
                /\ \/ /\ store' = Apply(store, r.call[1])
                      /\ log' = log \o r.msg
                      /\ i' = i + 1
                      /\ pc' = IF i = Len(devices) THEN "done" ELSE "update"
                      /\ UNCHANGED err
                   \/ /\ Throw(r.call[1].op)
                      /\ UNCHANGED <<store, log, i>>
    /\ UNCHANGED <<cycle, obs, warp, zone_name, devices, records, prev>>

Next ==
    \/ Start
    \/ GetZoneName
    \/ GetDevices
    \/ GetIp
    \/ GetDnsRecords
    \/ UpdateDnsRecord

Spec == Init /\ [][Next]_vars

----------------------------------------------------------------------------
(* get_devices alone, on every listing of at most MaxObs observations *)

InitDedup ==
    /\ pc = "list"
    /\ cycle = 0
    /\ obs \in Listings(MaxObs, ObsTimes)
    /\ warp = [id \in DevIds |-> R404]
    /\ store = <<>>
    /\ zone_name = <<>>
    /\ devices = <<>>
    /\ records = <<>>
    /\ i = 1
    /\ calls = <<>>
    /\ log = <<>>
    /\ err = "none"
    /\ prev = "none"

Deduplicate ==
    /\ pc = "list"
    /\ devices' = get_devices(obs)
    /\ pc' = "listed"
    /\ UNCHANGED <<cycle, obs, warp, store, zone_name, records, i, calls, log, err, prev>>

NextDedup == Deduplicate

SpecDedup == InitDedup /\ [][NextDedup]_vars

----------------------------------------------------------------------------
(* update_dns_records alone, on every devices object and every snapshot    *)

IpValues == {Null, Undefined} \cup {Str(a) : a \in Addrs}

\* the devices objects scheduled can hand over: get_devices retains an
\* observation of whatever name when the timestamps increase along the
\* listing, and the lookup loop leaves null, undefined or a string in ip
DeviceLists ==
    UNION { { [x \in 1..k |-> [id |-> x, name |-> f[x].name, updated |-> x, ip |-> f[x].ip]] :
                f \in [1..k -> [name : DevNames, ip : IpValues]] } : k \in 0..MaxDevs }

\* a response of the lookup service that leaves the given value in ip
ResponseFor(ip) ==
    IF ip = Null THEN R404
    ELSE IF ip = Undefined THEN REmptyMeta
    ELSE ROk(ip.val)

InitUpdate ==
    /\ devices \in DeviceLists
    /\ store \in StoreInits
    /\ obs = [x \in 1..Len(devices) |->
                [id |-> x, name |-> devices[x].name, updated_at |-> devices[x].updated]]
    /\ warp = [id \in DevIds |->
                IF id <= Len(devices) THEN ResponseFor(devices[id].ip) ELSE R404]
    /\ pc = IF Len(devices) = 0 THEN "done" ELSE "update"
    /\ cycle = 1
    /\ zone_name = ZoneName
    /\ records = get_dns_records(store)
    /\ i = 1
    /\ calls = <<>>
    /\ log = <<>>
    /\ err = "none"
    /\ prev = "none"

NextUpdate == UpdateDnsRecord

SpecUpdate == InitUpdate /\ [][NextUpdate]_vars

----------------------------------------------------------------------------
(* isIPv4 on the address of one device of an empty zone: the device gets   *)
(* its CREATE exactly when isIPv4 accepts the address                      *)

\* dot-separated parts per address
MaxParts == 5

\* the parts the addresses are made of: empty, canonical, with a leading
\* zero, at and above the range, not a number
Parts ==
    {<<>>, <<"0">>, <<"1">>, <<"0", "1">>,
     <<"2", "5", "5">>, <<"2", "5", "6">>, <<"a">>}

RECURSIVE JoinAll(_)
JoinAll(parts) ==
    IF Len(parts) = 1 THEN parts[1]
    ELSE join(parts[1], JoinAll(Tail(parts)))

Letters == <<"a", "b", "c", ".", "d", "e", "f", ".", "g", "h", ".", "i">>

\* addresses with a two-digit octet, and one of letters
Examples ==
    {<<"1", "0", ".", "0", ".", "0", ".", "1">>,
     <<"1", "0", ".", "0", ".", "0", ".", "2", "5", "6">>,
     <<"1", "0", ".", "0", ".", "0">>,
     <<"1", "0", ".", "0", ".", "0", ".", "0", "1">>,
     <<"1", "0", ".", "1", "0", ".", "1", "0", ".", "1", "0", ".", "1", "0">>,
     Letters}

\* a devices object of one device with the given address
Addressed(s) == <<[id |-> 1, name |-> <<"a">>, updated |-> 1, ip |-> Str(s)]>>

InitIPv4 ==
    /\ \/ \E n \in 1..MaxParts : \E f \in [1..n -> Parts] :
             devices = Addressed(JoinAll(f))
       \/ \E s \in Examples : devices = Addressed(s)
    /\ warp = [id \in DevIds |-> IF id = 1 THEN ROk(devices[1].ip.val) ELSE R404]
    /\ obs = <<[id |-> 1, name |-> <<"a">>, updated_at |-> 1]>>
    /\ store = <<>>
    /\ pc = "update"
    /\ cycle = 1
    /\ zone_name = ZoneName
    /\ records = <<>>
    /\ i = 1
    /\ calls = <<>>
    /\ log = <<>>
    /\ err = "none"
    /\ prev = "none"

NextIPv4 == UpdateDnsRecord

SpecIPv4 == InitIPv4 /\ [][NextIPv4]_vars

----------------------------------------------------------------------------
(* Vocabulary of the properties *)

\* the fully-qualified names and addresses the properties speak of, written
\* out: the lowercase device name, a dot, the zone suffix
FqdnOf(name) ==
    IF name \in {<<"a">>, <<"A">>} THEN <<"a", ".", "z">> ELSE <<"b", ".", "z">>

\* the addresses of Addrs that are IPv4 literals
IPv4Literals == {IP1, IP2}

HasValidAddress(d) == d.ip.tag = "string" /\ d.ip.val \in IPv4Literals

\* the devices update_dns_records has finished with
Processed ==
    IF pc \in {"update", "done"} \/ (pc = "aborted" /\ err \in {"create", "update"})
    THEN 1..(i - 1)
    ELSE {}

\* the calls issued for the device of a given id, in order
CallsOf(id) == SelectSeq(calls, LAMBDA c : c.dev = id)

LogOf(id) == SelectSeq(log, LAMBDA m : m.dev = id)

\* the snapshot records of a given name, by position
Matches(n) == {r \in 1..Len(records) : records[r].name = n}

FirstMatch(n) == CHOOSE r \in Matches(n) : \A q \in Matches(n) : r <= q

MaxOf(S) == CHOOSE x \in S : \A y \in S : y <= x

----------------------------------------------------------------------------
(* C1: get_devices returns exactly one entry for every device name that    *)
(* occurs in the listing.                                                  *)
C1_OneEntryPerName ==
    pc = "listed" =>
        \A k \in 1..Len(obs) :
            Cardinality({x \in 1..Len(devices) : devices[x].name = obs[k].name}) = 1

(* C2: a cycle that follows a cycle completed without error, on the same   *)
(* observations, addresses and a store changed by that cycle only, issues  *)
(* no CREATE and no UPDATE.                                                *)
C2_SecondCycleIssuesNothing ==
    (cycle >= 2 /\ prev = "done") => calls = <<>>

(* C3: within one cycle at most one CREATE is issued for any               *)
(* fully-qualified name.                                                   *)
C3_OneCreatePerName ==
    \A x, y \in 1..Len(calls) :
        (x # y /\ calls[x].op = "create" /\ calls[y].op = "create")
            => calls[x].name # calls[y].name

(* C4: every entry get_devices retains for a name carries the maximum      *)
(* lastUpdated of the observations of that name (names all of whose        *)
(* timestamps parse).                                                      *)
C4_RetainedIsLatest ==
    pc = "listed" =>
        \A x \in 1..Len(devices) :
            LET same == {k \in 1..Len(obs) : obs[k].name = devices[x].name}
            IN  (\A k \in same : obs[k].updated_at # InvalidDate)
                    => devices[x].updated = MaxOf({obs[k].updated_at : k \in same})

(* C5: when the store rejects the mutation of a device, every later device *)
(* that needs a CREATE or UPDATE still gets it in the same cycle (checked  *)
(* on the cycles whose devices have pairwise different target names).      *)
C5_FailureIsPerDevice ==
    (/\ pc = "aborted" /\ err \in {"create", "update"}
     /\ \A x, y \in 1..Len(devices) :
            x # y => FqdnOf(devices[x].name) # FqdnOf(devices[y].name)) =>
        \A k \in (i + 1)..Len(devices) :
            (HasValidAddress(devices[k])
             /\ \A r \in Matches(FqdnOf(devices[k].name)) :
                    records[r].content # devices[k].ip.val)
                => CallsOf(devices[k].id) # <<>>

(* C6: no outcome of an address lookup, a failed request included, ends    *)
(* the cycle: the lookup yields no address for that device and the cycle   *)
(* goes on to the mutation phase.                                          *)
C6_LookupNeverFatal ==
    /\ ~(pc = "aborted" /\ err = "get_ip")
    /\ \A k \in 1..Len(devices) :
          (pc \in {"records", "update", "done"} /\ warp[devices[k].id] \notin {ROk(a) : a \in Addrs})
              => devices[k].ip \in {Null, Undefined}

C8_NoRedundantMutation ==
    /\ \A x \in 1..Len(calls) :
          calls[x].op = "update" =>
              \E r \in 1..Len(records) :
                  records[r].id = calls[x].id /\ records[r].content # calls[x].content
    /\ \A k \in Processed :
          (/\ HasValidAddress(devices[k])
           /\ Matches(FqdnOf(devices[k].name)) # {}
           /\ records[FirstMatch(FqdnOf(devices[k].name))].content = devices[k].ip.val)
              => /\ CallsOf(devices[k].id) = <<>>
                 /\ Len(LogOf(devices[k].id)) = 1
                 /\ LogOf(devices[k].id)[1].outcome = "untouched"

\* a cycle ended in which one device was left untouched and another updated
C8_Witness ==
    /\ pc = "done"
    /\ \E m \in 1..Len(log), x \in 1..Len(calls) :
          /\ log[m].outcome = "untouched"
          /\ calls[x].op = "update"
          /\ calls[x].name # log[m].name

(* C9: a device whose address is unknown or is no IPv4 literal gets no     *)
(* CREATE and no UPDATE, whatever the zone holds.                          *)
C9_NoAddressNoMutation ==
    \A k \in 1..Len(devices) :
        ~HasValidAddress(devices[k]) => CallsOf(devices[k].id) = <<>>

\* a cycle ended with one device without address and one with a malformed
\* address, both named like a record of the snapshot
C9_Witness ==
    /\ pc = "done"
    /\ \E k, l \in Processed :
          /\ devices[k].ip \in {Null, Undefined}
          /\ devices[l].ip = Str(BadIP)
          /\ FqdnOf(devices[k].name) # FqdnOf(devices[l].name)
          /\ Matches(FqdnOf(devices[k].name)) # {}
          /\ Matches(FqdnOf(devices[l].name)) # {}

(* C10: every snapshot record is matched by at most one processed device.  *)
C10_RecordMatchedOnce ==
    \A r \in 1..Len(records) :
        Cardinality({k \in Processed :
                        HasValidAddress(devices[k])
                        /\ FqdnOf(devices[k].name) = records[r].name}) <= 1

----------------------------------------------------------------------------
(* Vocabulary of the properties, continued *)

\* the observations of a target name with the greatest timestamp
LatestOf(n) ==
    {k \in 1..Len(obs) :
        /\ FqdnOf(obs[k].name) = n
        /\ \A j \in 1..Len(obs) :
              FqdnOf(obs[j].name) = n => obs[j].updated_at <= obs[k].updated_at}

\* the canonical observation of a target name: the first listed of the latest
CanonicalOf(n) == CHOOSE k \in LatestOf(n) : \A j \in LatestOf(n) : k <= j

\* no two observations of a target name carry the same timestamp
NoTies ==
    \A x, y \in 1..Len(obs) :
        (x # y /\ FqdnOf(obs[x].name) = FqdnOf(obs[y].name))
            => obs[x].updated_at # obs[y].updated_at

\* the lookup service holds an IPv4 literal for the device
Resolves(id) == warp[id].hasip /\ warp[id].ipv4 \in IPv4Literals

\* the same observations, listed in every order
Orders(listing) ==
    {[k \in 1..Len(listing) |-> listing[p[k]]] :
        p \in {q \in [1..Len(listing) -> 1..Len(listing)] :
                 \A x, y \in 1..Len(listing) : x # y => q[x] # q[y]}}

\* a mutation as the provider sees it
Mutation(c) == [op |-> c.op, id |-> c.id, name |-> c.name, content |-> c.content]

\* the mutations a cycle issues on a listing, against the snapshot held
MutationsOf(listing) ==
    LET listed == get_devices(listing)
        devs == [k \in 1..Len(listed) |->
                    SetIp(listed, k, get_ip(warp[listed[k].id]))[k]]
    IN  {Mutation(update_dns_record(ZoneName, records, devs[k]).call[1]) :
            k \in {x \in 1..Len(devs) :
                     update_dns_record(ZoneName, records, devs[x]).call # NoCall}}

(* C11: after a cycle completed without error, for every target name whose *)
(* canonical device (the most recently updated, the first listed of equal  *)
(* ones) has a valid address, the zone holds a record of that name with    *)
(* that address.                                                           *)
C11_Converged ==
    pc = "done" =>
        \A k \in 1..Len(obs) :
            (k = CanonicalOf(FqdnOf(obs[k].name)) /\ Resolves(obs[k].id))
                => \E r \in 1..Len(store) :
                      /\ store[r].name = FqdnOf(obs[k].name)
                      /\ store[r].content = warp[obs[k].id].ipv4

(* C12: the set of mutations of a completed cycle is the same for every    *)
(* order in which the directory lists the same observations (checked on    *)
(* the listings without equal timestamps under one name, where the         *)
(* canonical devices do not depend on the order).                          *)
C12_OrderIndependent ==
    (pc = "done" /\ NoTies) =>
        \A listing \in Orders(obs) :
            MutationsOf(listing) = {Mutation(calls[x]) : x \in 1..Len(calls)}

(* C13: when the zone-name lookup or the directory listing fails, the      *)
(* cycle ends at once: no CREATE and no UPDATE is issued, no address is    *)
(* looked up and the records are not read.                                 *)
C13_FatalReadIssuesNothing ==
    err \in {"get_zone_name", "get_devices"} =>
        /\ pc = "aborted"
        /\ calls = <<>>
        /\ records = <<>>
        /\ \A k \in 1..Len(devices) : devices[k].ip = Null

\* the listing failed in a cycle that had two records to create
C13_Witness ==
    /\ pc = "aborted"
    /\ err = "get_devices"
    /\ Len(obs) = 2
    /\ FqdnOf(obs[1].name) # FqdnOf(obs[2].name)
    /\ Resolves(1) /\ Resolves(2)
    /\ store = <<>>
    /\ calls = <<>>

C15_NameIsLowercase ==
    \A x \in 1..Len(calls) :
        \E k \in 1..Len(devices) :
            /\ devices[k].id = calls[x].dev
            /\ calls[x].name = FqdnOf(devices[k].name)

\* a device named "A" had the record a.z updated to its address
C15_Witness ==
    /\ pc = "done"
    /\ \E x \in 1..Len(calls), k \in 1..Len(devices) :
          /\ devices[k].id = calls[x].dev
          /\ devices[k].name = <<"A">>
          /\ calls[x].op = "update"
          /\ calls[x].name = <<"a", ".", "z">>
          /\ store[calls[x].id] = [name |-> <<"a", ".", "z">>, content |-> devices[k].ip.val]

\* the decimal numerals of 0..255 without leading zeros, written out digit
\* by digit
CanonicalOctets ==
    {<<DigitSeq[n + 1]>> : n \in 0..9}
    \cup {<<DigitSeq[(n \div 10) + 1], DigitSeq[(n % 10) + 1]>> : n \in 10..99}
    \cup {<<DigitSeq[(n \div 100) + 1], DigitSeq[((n \div 10) % 10) + 1], DigitSeq[(n % 10) + 1]>> :
            n \in 100..255}

\* four canonical octets separated by three dots
IsDottedQuad(s) ==
    \E p1, p2, p3 \in 1..Len(s) :
        /\ p1 < p2 /\ p2 < p3
        /\ s[p1] = "." /\ s[p2] = "." /\ s[p3] = "."
        /\ SubSeq(s, 1, p1 - 1) \in CanonicalOctets
        /\ SubSeq(s, p1 + 1, p2 - 1) \in CanonicalOctets
        /\ SubSeq(s, p2 + 1, p3 - 1) \in CanonicalOctets
        /\ SubSeq(s, p3 + 1, Len(s)) \in CanonicalOctets

\* the devices update_dns_records has taken up, the one whose call was
\* rejected included
TakenUp ==
    Processed \cup (IF pc = "aborted" /\ err \in {"create", "update"} THEN {i} ELSE {})

(* C16: isIPv4 accepts exactly the strings made of four dot-separated      *)
(* canonical decimal octets 0..255: a device of an empty zone gets a       *)
(* CREATE exactly when its address is one; the content of a call is always *)
(* one; 10.0.0.1 is accepted, 10.0.0.256, 10.0.0, abc.def.gh.i, the empty  *)
(* string and 10.0.0.01 are rejected.                                      *)
C16_AcceptsExactlyIPv4 ==
    /\ \A k \in TakenUp :
          (devices[k].ip.tag = "string" /\ records = <<>>)
              => (CallsOf(devices[k].id) # <<>> <=> IsDottedQuad(devices[k].ip.val))
    /\ \A x \in 1..Len(calls) : IsDottedQuad(calls[x].content)
    /\ \A k \in TakenUp :
          /\ (devices[k].ip.val = <<"1", "0", ".", "0", ".", "0", ".", "1">> /\ records = <<>>)
                => CallsOf(devices[k].id) # <<>>
          /\ devices[k].ip.val \in
                {<<"1", "0", ".", "0", ".", "0", ".", "2", "5", "6">>,
                 <<"1", "0", ".", "0", ".", "0">>,
                 Letters,
                 <<>>,
                 <<"1", "0", ".", "0", ".", "0", ".", "0", "1">>}
                => CallsOf(devices[k].id) = <<>>

\* 10.0.0.1 was accepted and written as the content of a CREATE
C16_Witness ==
    /\ pc = "done"
    /\ devices[1].ip = Str(<<"1", "0", ".", "0", ".", "0", ".", "1">>)
    /\ Len(calls) = 1
    /\ calls[1].content = <<"1", "0", ".", "0", ".", "0", ".", "1">>

\* the observations of the listing whose timestamp parses
WellFormed == SelectSeq(obs, LAMBDA o : o.updated_at # InvalidDate)

(* C17: an observation whose timestamp does not parse is skipped by        *)
(* get_devices: no returned entry comes from one, a name with a            *)
(* well-formed observation has a returned entry, and the result is the     *)
(* one get_devices gives for the well-formed observations alone.           *)
C17_MalformedIsSkipped ==
    pc = "listed" =>
        /\ \A x \in 1..Len(devices) : devices[x].updated # InvalidDate
        /\ \A k \in 1..Len(WellFormed) :
              \E x \in 1..Len(devices) : devices[x].name = WellFormed[k].name
        /\ devices = get_devices(WellFormed)

(* C19: of two observations with different ids, the same name and equal    *)
(* timestamps, get_devices keeps the first listed and does not add the     *)
(* later one.                                                              *)
C19_TieKeepsFirst ==
    pc = "listed" =>
        \A x, y \in 1..Len(obs) :
            (/\ x < y
             /\ obs[x].id # obs[y].id
             /\ obs[x].name = obs[y].name
             /\ obs[x].updated_at # InvalidDate
             /\ obs[x].updated_at = obs[y].updated_at)
                => ~ \E k \in 1..Len(devices) : devices[k].id = obs[y].id

\* the calls of a given kind issued for the device of a given id
CallsOfKind(id, op) == SelectSeq(CallsOf(id), LAMBDA c : c.op = op)

ReadErrs == {"get_zone_name", "get_devices", "get_ip", "get_dns_records"}

\* a CREATE or UPDATE is issued in this step
Issues == calls' # calls /\ calls' # <<>>

\* the zone name is read, every listed name has its entry, every device
\* whose address the lookup service holds carries it, and, before the first
\* mutation of the cycle, the snapshot is the zone
ReadsDone ==
    /\ zone_name = ZoneName
    /\ \A o \in 1..Len(obs) : \E k \in 1..Len(devices) : devices[k].name = obs[o].name
    /\ \A k \in 1..Len(devices) :
          warp[devices[k].id].hasip => devices[k].ip = Str(warp[devices[k].id].ipv4)
    /\ calls = <<>> =>
          /\ Len(records) = Len(store)
          /\ \A r \in 1..Len(records) :
                /\ records[r].name = store[r].name
                /\ records[r].content = store[r].content

(* C20: a CREATE or UPDATE is issued only after the zone name, the whole   *)
(* device list, every address lookup and the snapshot have been read, and  *)
(* it leaves them as they are; the zone changes only by an issued          *)
(* mutation; the snapshot changes only when it is loaded, before any       *)
(* mutation, or when the next cycle begins; a failed read leaves the zone  *)
(* unchanged with no mutation issued.                                      *)
C20_ReadsBeforeWrites ==
    [][/\ Issues =>
            /\ pc = "update"
            /\ ReadsDone
            /\ records' = records /\ devices' = devices /\ zone_name' = zone_name
       /\ store' # store => Issues
       /\ records' # records =>
            \/ pc = "records" /\ calls = <<>>
            \/ records' = <<>> /\ calls' = <<>>
       /\ err' \in ReadErrs => (calls' = <<>> /\ store' = store)
      ]_vars

\* a finished cycle that has read a non-empty zone and two resolving
\* devices of different names, and issued a mutation for each
C20_Witness ==
    /\ pc = "done"
    /\ records # <<>>
    /\ Len(devices) = 2
    /\ devices[1].name # devices[2].name
    /\ HasValidAddress(devices[1]) /\ HasValidAddress(devices[2])
    /\ CallsOf(devices[1].id) # <<>> /\ CallsOf(devices[2].id) # <<>>

====
